---- MODULE Spec2Model ----
(***************************************************************************)
(* A model of rom 0.20 (src/rom/__init__.py, src/rom/columns.py): the      *)
(* model registry, entity objects held by concurrent writers, and          *)
(* Model._apply_changes in its two write modes (optimistic WATCH/MULTI/    *)
(* EXEC and the Lua writer script) over one Redis keyspace.                *)
(***************************************************************************)
EXTENDS Integers, FiniteSets, Sequences, TLC

\* ------------------------------------------------------------- bounds
\* Primary keys handed out by INCR are capped at MaxId.
MaxId == 2
\* The per-call count of watch invalidations saturates at MaxRetries.
MaxRetries == 2
\* Filters one Query object carries.
MaxFilters == 3
\* Entity operations (create, get, save, delete, refresh) begun in one run.
MaxOps == 5
\* Direct calls of the classmethod _apply_changes begun in one run.
MaxApplies == 2

Writers == {"w1", "w2"}
Ids == 1..MaxId

\* ------------------------------------------------------------- values
\* Python's None, and what the Redis client sends for it (str(None)).
None == "<None>"
StrNone == "None"

Attrs == {"id", "email", "nick", "flag"}
StrAttrs == {"email", "nick"}
EmailVals == {"", "a", "A b"}
NickVals == {"n"}

\* Boolean._to_redis: '1' if obj else ''
BoolToRedis(b) == IF b THEN "1" ELSE ""

ValuesOf(attr) ==
    CASE attr = "email" -> EmailVals
      [] attr = "nick" -> NickVals
      [] attr = "flag" -> { BoolToRedis(b) : b \in BOOLEAN }
      [] OTHER -> {}

\* PrimaryKey values are ints; Column._to_redis writes repr(value) and
\* Column._from_redis reads it back with int().
IdToRedis(n) == ToString(n)
IdFromRedis(s) == CHOOSE n \in 0..(MaxId + 1) : ToString(n) = s

\* A field map (a Python dict read with .get): attribute -> string or None.
Blank == [a \in Attrs |-> None]

\* The class bodies a program may declare for the model named "User": an
\* indexed primary key, an indexed unique String email and, in the second,
\* a further unique String nick.  None of the columns is required.
\* keygen names each column's key generator: the defaults of an indexed
\* column ("numeric", "string"), "off" for a column without index, or a
\* function the program passed as keygen=.
ModelName == "User"
DefaultKeygens == [a \in Attrs |-> IF a = "id" THEN "numeric"
                                   ELSE IF a = "email" THEN "string"
                                   ELSE "off"]
Decls ==
    { [name |-> ModelName, columns |-> {"id", "email"},
       unique |-> {"email"}, index |-> {"id", "email"},
       keygen |-> DefaultKeygens],
      [name |-> ModelName, columns |-> {"id", "email", "nick"},
       unique |-> {"email", "nick"}, index |-> {"id", "email"},
       keygen |-> DefaultKeygens] }

\* The key generators a program passes for the column nick in the class
\* bodies of KeygenDecls, by what they return:
\*   "tokens"    lambda v: [v]                 a token collection
\*   "scoremap"  lambda v: {'': 1, 'len': 2}   a score-map
\*   "score"     lambda v: len(v)              a bare score (1 for "n")
\*   "zero"      lambda v: 0                   the bare score 0
\*   "none"      lambda v: None                nothing
\*   "text"      lambda v: v                   a string
CustomKeygens == {"tokens", "scoremap", "score", "zero", "none", "text"}

\* Class bodies with an indexed primary key and a unique, indexed String
\* nick whose key generator is one of CustomKeygens.
KeygenDecls ==
    { [name |-> ModelName, columns |-> {"id", "nick"},
       unique |-> {"nick"}, index |-> {"id", "nick"},
       keygen |-> [DefaultKeygens EXCEPT !["nick"] = k]] :
        k \in CustomKeygens }

\* Class body with an indexed primary key and an indexed Boolean flag,
\* whose key generator Column.__init__ sets to _boolean_keygen.
BoolDecls ==
    { [name |-> ModelName, columns |-> {"id", "flag"},
       unique |-> {}, index |-> {"id", "flag"},
       keygen |-> [DefaultKeygens EXCEPT !["flag"] = "boolean"]] }

\* The field maps an entity of class cls can carry in its string columns.
ColVals(cls, a) ==
    IF a \in cls.columns THEN ValuesOf(a) \cup {None} ELSE {None}

DataMaps(cls) ==
    { [a \in Attrs |-> IF a = "email" THEN e
                       ELSE IF a = "nick" THEN n
                       ELSE IF a = "flag" THEN f
                       ELSE None] :
        e \in ColVals(cls, "email"), n \in ColVals(cls, "nick"),
        f \in ColVals(cls, "flag") }

\* ---------------------------------------------------- key generators
\* String keygen (columns.py, String docstring):
\*   filter(None, [s.lower().strip(string.punctuation) for s in val.split()])
SplitWords(val) ==
    CASE val = "" -> {}
      [] val = "a" -> {"a"}
      [] val = "A b" -> {"A", "b"}
      [] val = "n" -> {"n"}
      [] OTHER -> {}

LowerStrip(word) == IF word = "A" THEN "a" ELSE word

StringKeygen(val) == { LowerStrip(s) : s \in SplitWords(val) } \ {""}

\* Numeric keygen: the value itself as the attribute's direct score.
NumericKeygen(val) == IdFromRedis(val)

\* Boolean keygen: false -> 0, true -> 1 as the attribute's direct score.
BooleanKeygen(val) == IF val = BoolToRedis(TRUE) THEN 1 ELSE 0

\* What a key generator returned: a list, tuple or set (items), a dict
\* (map: sub-key, score pairs), a number (num), None, or a string (text).
GenList(items) ==
    [kind |-> "list", items |-> items, map |-> {}, num |-> 0, text |-> ""]
GenDict(map) ==
    [kind |-> "dict", items |-> {}, map |-> map, num |-> 0, text |-> ""]
GenNumber(n) ==
    [kind |-> "number", items |-> {}, map |-> {}, num |-> n, text |-> ""]
GenNone ==
    [kind |-> "none", items |-> {}, map |-> {}, num |-> 0, text |-> ""]
GenText(t) ==
    [kind |-> "text", items |-> {}, map |-> {}, num |-> 0, text |-> t]

\* "generated = ca._keygen(nval)" for the key generator named keygen.
Keygen(keygen, nval) ==
    CASE keygen = "string" -> GenList(StringKeygen(nval))
      [] keygen = "numeric" -> GenDict({<<"", NumericKeygen(nval)>>})
      [] keygen = "boolean" -> GenDict({<<"", BooleanKeygen(nval)>>})
      [] keygen = "tokens" -> GenList({nval})
      [] keygen = "scoremap" -> GenDict({<<"", 1>>, <<"len", 2>>})
      [] keygen = "score" -> GenNumber(1)
      [] keygen = "zero" -> GenNumber(0)
      [] keygen = "text" -> GenText(nval)
      [] OTHER -> GenNone

\* "elif not generated": the truth value of a return that is neither a
\* collection nor a dict.
GenTruthy(g) ==
    \/ g.kind = "number" /\ g.num # 0
    \/ g.kind = "text" /\ g.text # ""

\* "if not k: scores[attr] = v / else: scores['%s:%s'%(attr, k)] = v"
SubKey(attr, k) == IF k = "" THEN attr ELSE attr \o ":" \o k

\* ---------------------------------------------------------- variables
VARIABLES
    USE_LUA,    \* the module global USE_LUA
    MODELS,     \* the model registry: the set of registered classes
    declared,   \* outcome of the last class statement
    db,         \* the Redis keyspace
    obj,        \* per writer: the entity object its session holds
    call,       \* per writer: the arguments of its running, else of its
                \* last, _apply_changes
    pc,         \* per writer: position inside _apply_changes
    watching,   \* per writer: the unique-index keys its pipeline WATCHes
    dirty,      \* per writer: a watched key was modified since WATCH
    retries,    \* per writer: watch invalidations met by the running call
    outcome,    \* per writer: how its last _apply_changes ended
    ops,        \* per writer: the entity operations it has begun so far
    query,      \* the Query object the program holds
    answer      \* what the last call on a query or a lookup gave

vars == <<USE_LUA, MODELS, declared, db, obj, call, pc, watching, dirty,
          retries, outcome, ops, query, answer>>

\* What the entity operations leave alone.
qvars == <<query, answer>>

\* ---------------------------------------------------------- the store
NoManifest == [present |-> FALSE, keys |-> {}, scored |-> {}]

\* rec[id]: the hash "User:<id>" (all fields None: the key does not exist)
\* uidx[attr][value]: the hash "User:<attr>:uidx", 0 for a missing field
\* midx: the sets "User:<attr>:<token>:idx" as <<attr, token>>, id pairs
\* ridx: the sorted sets "User:<key>:idx" as <<key, id, score>> triples
\* manifest[id]: field <id> of the hash "User::"
\* pkctr: the counter "User:id:" that INCR advances
UFields == EmailVals \cup NickVals \cup {StrNone}

EmptyDb ==
    [rec |-> [i \in Ids |-> Blank],
     uidx |-> [a \in StrAttrs |-> [v \in UFields |-> 0]],
     midx |-> {},
     ridx |-> {},
     manifest |-> [i \in Ids |-> NoManifest],
     pkctr |-> 0]

Exists(d, id) == \E a \in Attrs : d.rec[id][a] # None

\* The entity operations begun so far, by all writers.
OpsBegun == ops["w1"] + ops["w2"]

\* ------------------------------------------------------------ objects
\* pk: _data[_pkey]; last: _last; isNew: _new; deleted: _deleted;
\* modified: _modified
NoObj == [pk |-> 0, last |-> Blank, isNew |-> FALSE, deleted |-> FALSE,
          modified |-> FALSE]
NoCall == [pk |-> 0, old |-> Blank, new |-> Blank, full |-> FALSE,
           delete |-> FALSE, use_lua |-> FALSE]

Cls == CHOOSE m \in MODELS : m.name = ModelName

\* Query.__init__(model, filters=(), order_by=None, limit=None): the object
\* Model.query returns.  order_by is a sequence of characters, limit a
\* sequence (offset, count) or the empty one.
NoOrder == <<None>>
NewQuery == [filters |-> <<>>, order_by |-> NoOrder, limit |-> <<>>]

\* What a call gave: the method called, "ok" or the exception raised, the
\* value or the Query returned, the commands sent to the store, and for
\* filter the number of clauses its loop had appended when it ended.
Answer(op, result, value, q, commands, appended) ==
    [op |-> op, result |-> result, value |-> value, query |-> q,
     commands |-> commands, appended |-> appended]

\* Nothing asked yet.
NoAnswer == Answer("none", "none", <<>>, NewQuery, <<>>, 0)

Init ==
    /\ USE_LUA = FALSE
    /\ MODELS = {}
    /\ declared = "none"
    /\ db = EmptyDb
    /\ obj = [w \in Writers |-> NoObj]
    /\ call = [w \in Writers |-> NoCall]
    /\ pc = [w \in Writers |-> "idle"]
    /\ watching = [w \in Writers |-> {}]
    /\ dirty = [w \in Writers |-> FALSE]
    /\ retries = [w \in Writers |-> 0]
    /\ outcome = [w \in Writers |-> "none"]
    /\ ops = [w \in Writers |-> 0]
    /\ query = NewQuery
    /\ answer = NoAnswer

\* ------------------------------------------------- module-level steps
\* _enable_lua_writes(), called as the module docstring prescribes: right
\* after import, before any model class is declared.
EnableLua ==
    /\ MODELS = {}
    /\ ~USE_LUA
    /\ USE_LUA' = TRUE
    /\ UNCHANGED <<MODELS, declared, db, obj, call, pc, watching, dirty,
                   retries, outcome, ops, qvars>>

\* The module global assigned back ("rom.USE_LUA = False") by a program
\* that has declared its models and not yet touched an entity.
DisableLua ==
    /\ USE_LUA
    /\ MODELS # {}
    /\ OpsBegun = 0
    /\ USE_LUA' = FALSE
    /\ UNCHANGED <<MODELS, declared, db, obj, call, pc, watching, dirty,
                   retries, outcome, ops, qvars>>

\* TooManyUnique without the test: any number of unique columns passes.
TooManyUniqueOff(unique, use_lua) == FALSE

\* "Only one unique column allowed": the test of the metaclass ("if unique
\* and not USE_LUA" on a further unique column) and of _apply_changes
\* ("if len(cls._unique) > 1 and not use_lua").
TooManyUnique(unique, use_lua) == Cardinality(unique) > 1 /\ ~use_lua

\* _ModelMetaclass.__new__: the result of one class statement.
MetaclassNew(models, use_lua, decl) ==
    IF \E m \in models : m.name = decl.name
    THEN [models |-> models, result |-> "ORMError"]
    ELSE IF TooManyUnique(decl.unique, use_lua)
    THEN [models |-> models, result |-> "ColumnError"]
    ELSE [models |-> models \cup {decl}, result |-> "ok"]

\* The column classes that take the standard arguments, and the Python
\* types each accepts (_allowed).
ColumnTypes == {"Integer", "Boolean", "Float", "Decimal", "DateTime", "Date",
                "Time", "String", "Text", "Json"}
Allowed(type) ==
    CASE type = "Integer"  -> {"int", "long"}
      [] type = "Boolean"  -> {"bool"}
      [] type = "Float"    -> {"float", "int", "long"}
      [] type = "Decimal"  -> {"Decimal"}
      [] type = "DateTime" -> {"datetime"}
      [] type = "Date"     -> {"date"}
      [] type = "Time"     -> {"time"}
      [] type = "String"   -> {"str"}
      [] type = "Text"     -> {"unicode"}
      [] type = "Json"     -> {"dict", "list", "tuple"}

\* "if self._allowed != str and self._allowed != unicode" of the unique
\* test in Column.__init__.
UniqueRejected(type) == Allowed(type) # {"str"} /\ Allowed(type) # {"unicode"}

\* Column.__init__(unique=, index=, keygen=) of a column of class type:
\* whether it raises ColumnError, and the key generator it keeps.  The
\* classes with an instance in _NUMERIC are listed (a datetime is a date
\* too); True is an instance of bool and of int.
ColumnInit(type, unique, index, keygen) ==
    LET numeric == ~index \/ Allowed(type) \cap {"int", "float", "Decimal",
                                                "datetime", "date", "time"} # {}
        given == IF index /\ ~numeric /\ Allowed(type) \cap {"bool", "int"} # {}
                      /\ keygen = "off"
                 THEN "boolean" ELSE keygen
    IN  IF unique /\ UniqueRejected(type)
        THEN [result |-> "ColumnError", keygen |-> "off"]
        ELSE IF index /\ ~numeric /\ Allowed(type) \notin {{"str"}, {"unicode"}}
                /\ given = "off"
        THEN [result |-> "ColumnError", keygen |-> "off"]
        ELSE [result |-> "ok",
              keygen |-> IF ~index THEN "off"
                         ELSE IF given # "off" THEN given
                         ELSE IF numeric THEN "numeric" ELSE "string"]

\* The class statement
\*     class User(Model):
\*         id = PrimaryKey(index=True)
\*         email = <type>(unique=<unique>, index=True)
\* A column constructor that raises ends the class body: the metaclass is
\* never reached.
DeclareColumn(type, unique) ==
    /\ MODELS = {}
    /\ LET col == ColumnInit(type, unique, TRUE, "off")
           decl == [name |-> ModelName, columns |-> {"id", "email"},
                    unique |-> IF unique THEN {"email"} ELSE {},
                    index |-> {"id", "email"},
                    keygen |-> [DefaultKeygens EXCEPT !["email"] = col.keygen]]
           r == MetaclassNew(MODELS, USE_LUA, decl)
       IN IF col.result = "ColumnError"
          THEN /\ declared' = "ColumnError"
               /\ UNCHANGED MODELS
          ELSE /\ MODELS' = r.models
               /\ declared' = r.result
    /\ UNCHANGED <<USE_LUA, db, obj, call, pc, watching, dirty, retries,
                   outcome, ops, qvars>>

DeclareModel(decl) ==
    /\ MODELS = {}
    /\ LET r == MetaclassNew(MODELS, USE_LUA, decl)
       IN /\ MODELS' = r.models
          /\ declared' = r.result
    /\ UNCHANGED <<USE_LUA, db, obj, call, pc, watching, dirty, retries,
                   outcome, ops, qvars>>

\* ------------------------------------------------------ entity objects
\* Model.__init__(**kwargs) of a new entity: PrimaryKey._init_ takes the
\* key from INCR and sets _modified, and every keyword given lands in _last
\* as well as _data.
Create(w) ==
    /\ MODELS # {}
    /\ pc[w] = "idle"
    /\ db.pkctr < MaxId
    /\ OpsBegun < MaxOps
    /\ ops' = [ops EXCEPT ![w] = @ + 1]
    /\ \E kwargs \in DataMaps(Cls) :
          obj' = [obj EXCEPT ![w] =
                     [pk |-> db.pkctr + 1, last |-> kwargs, isNew |-> TRUE,
                      deleted |-> FALSE, modified |-> TRUE]]
    /\ db' = [db EXCEPT !.pkctr = @ + 1]
    /\ outcome' = [outcome EXCEPT ![w] = "none"]
    /\ call' = [call EXCEPT ![w] = NoCall]
    /\ UNCHANGED <<USE_LUA, MODELS, declared, pc, watching, dirty, retries,
                   qvars>>

\* Model.get(id) in a session that does not hold the entity: HGETALL, then
\* Model.__init__(_loading=True, **data).  A hash without an id field makes
\* PrimaryKey._init_ take a fresh key from INCR.
Get(w, id) ==
    /\ MODELS # {}
    /\ pc[w] = "idle"
    /\ Exists(db, id)
    /\ OpsBegun < MaxOps
    /\ ops' = [ops EXCEPT ![w] = @ + 1]
    /\ LET data == db.rec[id]
           fresh == data["id"] = None
       IN /\ fresh => db.pkctr < MaxId
          /\ db' = IF fresh THEN [db EXCEPT !.pkctr = @ + 1] ELSE db
          /\ obj' = [obj EXCEPT ![w] =
                        [pk |-> IF fresh THEN db.pkctr + 1
                                ELSE IdFromRedis(data["id"]),
                         last |-> data, isNew |-> FALSE, deleted |-> FALSE,
                         modified |-> fresh]]
    /\ outcome' = [outcome EXCEPT ![w] = "none"]
    /\ call' = [call EXCEPT ![w] = NoCall]
    /\ UNCHANGED <<USE_LUA, MODELS, declared, pc, watching, dirty, retries,
                   qvars>>


\* ------------------------------------------- _apply_changes: the diff
\* The per-column decisions of the loop "for attr in cls._columns"
\* (String._to_redis and str() leave a string as it is).
Truthy(v) == v # None /\ v # ""

\* "if nval == oval and not full: continue"
Skipped(c, a) == c.new[a] = c.old[a] /\ ~c.full

\* "if nval is None and oval is not None": the column is deleted
Removed(c, a) == ~Skipped(c, a) /\ c.new[a] = None /\ c.old[a] # None

\* the column reaches "Add/update column value" and "Add/update unique index"
Written(c, a) == ~Skipped(c, a) /\ ~Removed(c, a)

\* the value returned: "changes"
Changes(cls, c) ==
    Cardinality({a \in cls.columns : ~Skipped(c, a)})
        + (IF c.delete THEN 1 ELSE 0)

\* "data": the fields HMSET writes (None: no entry for the column)
Data(cls, c) ==
    [a \in Attrs |->
        IF a \in cls.columns /\ Written(c, a) THEN c.new[a] ELSE None]

\* "if hasattr(ca, '_keygen') and ca._keygen and not delete and nval is
\* not None": the columns whose key generator the pass calls.
KeygenCols(cls, c) ==
    IF c.delete THEN {}
    ELSE { a \in cls.index \cap cls.columns : c.new[a] # None }

Generated(cls, c, a) == Keygen(cls.keygen[a], c.new[a])

\* "keys": the membership keys attr:token of the new values
Keys(cls, c) ==
    UNION { { <<a, t>> : t \in Generated(cls, c, a).items } :
            a \in { x \in KeygenCols(cls, c) :
                      Generated(cls, c, x).kind = "list" } }

\* "scores": key -> score of the new values (the empty sub-key is the
\* attribute itself)
Scores(cls, c) ==
    UNION { { <<SubKey(a, e[1]), e[2]>> : e \in Generated(cls, c, a).map } :
            a \in { x \in KeygenCols(cls, c) :
                      Generated(cls, c, x).kind = "dict" } }

\* "else: raise ColumnError("Don't know how to turn %r into a sequence of
\* keys")": a return that is no collection, no dict and not false.
KeygenError(cls, c) ==
    \E a \in KeygenCols(cls, c) :
        /\ Generated(cls, c, a).kind \notin {"list", "dict"}
        /\ GenTruthy(Generated(cls, c, a))

\* ------------------------------------------------- the general index
\* GeneralIndex._unindex: retract what the entity's manifest lists and
\* drop the manifest.
Unindex(d, id) ==
    LET m == d.manifest[id]
    IN [d EXCEPT
          !.midx = { e \in @ : ~(e[2] = id /\ e[1] \in m.keys) },
          !.ridx = { e \in @ : ~(e[2] = id /\ e[1] \in m.scored) },
          !.manifest[id] = NoManifest]

\* GeneralIndex.index: retract the old entries, add the new keys and
\* scores, replace the manifest.
Index(d, id, keys, scores) ==
    LET u == Unindex(d, id)
    IN [u EXCEPT
          !.midx = @ \cup { <<k, id>> : k \in keys },
          !.ridx = { e \in @ : ~(e[2] = id /\ \E s \in scores : s[1] = e[1]) }
                     \cup { <<s[1], id, s[2]>> : s \in scores },
          !.manifest[id] = [present |-> TRUE, keys |-> keys,
                            scored |-> { s[1] : s \in scores }]]

\* ------------------------------------------------ optimistic writing
\* The unique columns the check loop WATCHes and reads:
\*   not (nuval and (ouval != nuvale or full))  ->  continue
NeedsCheck(c, col) ==
    Truthy(c.new[col]) /\ (c.old[col] # c.new[col] \/ c.full)

CheckCols(cls, c) == { col \in cls.unique : NeedsCheck(c, col) }

\* "if not ival or ival == str(pk)"
UniqueFree(ival, pk) == ival = 0 \/ ival = pk

\* The argument the client sends for a field name: a string as it is,
\* anything else through str().
Enc(v) == IF v = None THEN StrNone ELSE v

\* The buffered HDEL/HSET on "User:<a>:uidx" for unique column a.
OptUidx(u, c, a) ==
    IF Removed(c, a) THEN [u EXCEPT ![c.old[a]] = 0]
    ELSE IF Written(c, a)
    THEN LET u1 == IF c.old[a] # None THEN [u EXCEPT ![c.old[a]] = 0]
                   ELSE u
         IN [u1 EXCEPT ![Enc(c.new[a])] = c.pk]
    ELSE u

\* Whether those commands modify the key (HSET always signals the key,
\* HDEL only when it removed a field).
OptTouches(d, c, a) ==
    \/ Written(c, a)
    \/ Removed(c, a) /\ d.uidx[a][c.old[a]] # 0

\* The buffered "pipe.hdel(key, attr)" and "pipe.hmset(key, data)".
OptRec(r, cls, c) ==
    [a \in Attrs |->
        IF a \in cls.columns /\ Removed(c, a) THEN None
        ELSE IF Data(cls, c)[a] # None THEN Data(cls, c)[a]
        ELSE r[a]]

\* EXEC of the commands one pass of the loop buffered without Lua.
OptCommit(d, cls, c) ==
    LET d1 == [d EXCEPT
                 !.rec[c.pk] = OptRec(@, cls, c),
                 !.uidx = [a \in StrAttrs |->
                             IF a \in cls.unique THEN OptUidx(@[a], c, a)
                             ELSE @[a]]]
    IN IF c.delete
       THEN [Unindex(d1, c.pk) EXCEPT !.rec[c.pk] = Blank]
       ELSE Index(d1, c.pk, Keys(cls, c), Scores(cls, c))

\* EXEC of a delete with Lua writes enabled: the column loop only fills
\* "deleted" and "udeleted", which the delete branch never sends.
LuaDeleteCommit(d, c) ==
    [Unindex(d, c.pk) EXCEPT !.rec[c.pk] = Blank]

\* "except redis.exceptions.WatchError": EXEC fails when a watched key was
\* modified since WATCH.
WatchError(watched, isDirty) == watched # {} /\ isDirty

\* ------------------------------------------------------- Lua writing
\* What redis_writer_lua passes to the script.
LuaUnique(cls, c) == { a \in cls.unique : Written(c, a) }

\* LuaUdeleted without the entry "udeleted[attr] = oval" of a changed value:
\* only removed columns give up their unique-index entry.
LuaUdeletedRemovedOnly(cls, c) == { a \in cls.unique : Removed(c, a) }

LuaUdeleted(cls, c) ==
    { a \in cls.unique :
        \/ Removed(c, a)
        \/ Written(c, a) /\ c.old[a] # None /\ c.old[a] # c.new[a] }

\* First pass of the script: the unique columns whose value another id
\* holds ("known ~= id and known ~= false").
LuaConflicts(d, cls, c) ==
    { a \in LuaUnique(cls, c) :
        c.new[a] # None /\ ~UniqueFree(d.uidx[a][c.new[a]], c.pk) }

\* json.dumps sends None as null; HGET with cjson.null as an argument
\* makes the script fail.
LuaNulls(cls, c) == { a \in LuaUnique(cls, c) : c.new[a] = None }

\* How a run of the script can end (pairs() visits the columns in no
\* fixed order, so a conflict or a null may be met first).
LuaResults(d, cls, c) ==
    IF LuaConflicts(d, cls, c) = {} /\ LuaNulls(cls, c) = {}
    THEN {"ok"}
    ELSE (IF LuaConflicts(d, cls, c) # {} THEN {"UniqueKeyViolation"} ELSE {})
         \cup (IF LuaNulls(cls, c) # {} THEN {"ResponseError"} ELSE {})

\* The unique index after the second pass (HSET) and the guarded removal
\* of "udeleted" (HDEL only when the field still maps to this id).
LuaUidx(u, cls, c, a) ==
    LET u1 == IF a \in LuaUnique(cls, c)
              THEN [u EXCEPT ![c.new[a]] = c.pk] ELSE u
    IN IF a \in LuaUdeleted(cls, c) /\ u1[c.old[a]] = c.pk
       THEN [u1 EXCEPT ![c.old[a]] = 0]
       ELSE u1

\* "remove deleted columns" (HDEL) and "update changed/added columns"
\* (HMSET) of the script.
LuaRec(r, cls, c) ==
    [a \in Attrs |->
        IF a \in cls.columns /\ Removed(c, a) THEN None
        ELSE IF Data(cls, c)[a] # None THEN Data(cls, c)[a]
        ELSE r[a]]

\* "remove old index data" (SREM/ZREM what the manifest lists), "add new
\* key index data", "add new scored index data", "update known index data".
LuaIndex(d, id, keys, scores) ==
    LET m == d.manifest[id]
        kept == { e \in d.midx : ~(e[2] = id /\ e[1] \in m.keys) }
        rkept == { e \in d.ridx : ~(e[2] = id /\ e[1] \in m.scored) }
    IN [d EXCEPT
          !.midx = kept \cup { <<k, id>> : k \in keys },
          !.ridx = { e \in rkept :
                       ~(e[2] = id /\ \E s \in scores : s[1] = e[1]) }
                     \cup { <<s[1], id, s[2]>> : s \in scores },
          !.manifest[id] = [present |-> TRUE, keys |-> keys,
                            scored |-> { s[1] : s \in scores }]]

\* The whole script on a run that passes the first pass.
LuaWrites(d, cls, c) ==
    LET d1 == [d EXCEPT
                 !.uidx = [a \in StrAttrs |->
                             IF a \in cls.unique THEN LuaUidx(@[a], cls, c, a)
                             ELSE @[a]],
                 !.rec[c.pk] = LuaRec(@, cls, c)]
    IN LuaIndex(d1, c.pk, Keys(cls, c), Scores(cls, c))

\* LuaScript with a single pass that writes each column as soon as it has
\* checked it: on a conflict the columns that passed are already written.
LuaScriptOnePass(d, cls, c, result) ==
    IF result = "ok" THEN LuaWrites(d, cls, c)
    ELSE [d EXCEPT
            !.uidx = [a \in StrAttrs |->
                        IF a \in LuaUnique(cls, c)
                                  \ (LuaConflicts(d, cls, c) \cup LuaNulls(cls, c))
                        THEN [@[a] EXCEPT ![c.new[a]] = c.pk]
                        ELSE @[a]]]

LuaScript(d, cls, c, result) ==
    IF result = "ok" THEN LuaWrites(d, cls, c) ELSE d

\* ------------------------------------------- _apply_changes: the steps
\* to_dict() of an entity whose string columns hold data.
ToDict(o, data) == [data EXCEPT !["id"] = IdToRedis(o.pk)]

\* "pk = old.get(cls._pkey) or new.get(cls._pkey)"
PkOf(old, new) ==
    IF old["id"] # None THEN IdFromRedis(old["id"])
    ELSE IF new["id"] # None THEN IdFromRedis(new["id"])
    ELSE 0

\* The arguments of a call, with USE_LUA as read on entry.
Args(old, new, full, delete) ==
    [pk |-> PkOf(old, new), old |-> old, new |-> new, full |-> full,
     delete |-> delete, use_lua |-> USE_LUA]

\* Return with the bookkeeping of save() and delete() in a "finally": it is
\* done however the call ends.
ReturnFinally(w, c, result) ==
    /\ pc' = [pc EXCEPT ![w] = "idle"]
    /\ call' = [call EXCEPT ![w] = c]
    /\ retries' = [retries EXCEPT ![w] = 0]
    /\ outcome' = [outcome EXCEPT ![w] = result]
    /\ obj' = IF obj[w] = NoObj
              THEN obj
              ELSE IF ~c.delete
              THEN [obj EXCEPT ![w].isNew = FALSE, ![w].last = c.new,
                               ![w].modified = FALSE, ![w].deleted = FALSE]
              ELSE [obj EXCEPT ![w].modified = TRUE, ![w].deleted = TRUE]

\* How the call leaves: save() then records the written values and clears
\* _new, _modified and _deleted, delete() sets _modified and _deleted, and
\* every exception leaves the object as it was.  A direct call of the
\* classmethod has no object.
Return(w, c, result) ==
    /\ pc' = [pc EXCEPT ![w] = "idle"]
    /\ call' = [call EXCEPT ![w] = c]
    /\ retries' = [retries EXCEPT ![w] = 0]
    /\ outcome' = [outcome EXCEPT ![w] = result]
    /\ obj' = IF obj[w] = NoObj
              THEN obj
              ELSE IF result = "ok" /\ ~c.delete
              THEN [obj EXCEPT ![w].isNew = FALSE, ![w].last = c.new,
                               ![w].modified = FALSE, ![w].deleted = FALSE]
              ELSE IF result = "ok"
              THEN [obj EXCEPT ![w].modified = TRUE, ![w].deleted = TRUE]
              ELSE obj

\* The unique-index keys a committed write modified make every other
\* pipeline that WATCHes one of them fail its EXEC; the committing
\* pipeline itself is reset.
Invalidate(w, touched) ==
    /\ dirty' = [x \in Writers |->
                    IF x = w THEN FALSE
                    ELSE IF watching[x] \cap touched # {} THEN TRUE
                    ELSE dirty[x]]
    /\ watching' = [watching EXCEPT ![w] = {}]

\* Commit with the record written apart from the transaction: the unique
\* index is left as it was.
CommitTorn(w, c) ==
    /\ db' = IF c.use_lua THEN LuaDeleteCommit(db, c)
             ELSE [OptCommit(db, Cls, c) EXCEPT !.uidx = db.uidx]
    /\ Invalidate(w, {})
    /\ Return(w, c, "ok")

\* "pipe.execute()" going through: the buffered commands take effect at
\* once and the call returns "changes".
Commit(w, c) ==
    /\ db' = IF c.use_lua THEN LuaDeleteCommit(db, c)
             ELSE OptCommit(db, Cls, c)
    /\ Invalidate(w, IF c.use_lua THEN {}
                     ELSE { a \in Cls.unique : OptTouches(db, c, a) })
    /\ Return(w, c, "ok")

\* redis_writer_lua: one run of the script, then "return changes" or
\* UniqueKeyViolation (or the script's own failure).
LuaWrite(w, c) ==
    /\ \E result \in LuaResults(db, Cls, c) :
          /\ db' = LuaScript(db, Cls, c, result)
          /\ Return(w, c, result)
    /\ UNCHANGED <<watching, dirty>>

\* Pass with the primary-key test moved behind the unique check: a pass
\* with a unique value to check WATCHes before the key is looked at.
PassLatePk(w, c) ==
    IF TooManyUnique(Cls.unique, c.use_lua)
    THEN /\ Return(w, c, "ColumnError")
         /\ UNCHANGED <<db, watching, dirty>>
    ELSE IF ~c.use_lua /\ CheckCols(Cls, c) # {}
    THEN /\ watching' = [watching EXCEPT ![w] = CheckCols(Cls, c)]
         /\ dirty' = [dirty EXCEPT ![w] = FALSE]
         /\ pc' = [pc EXCEPT ![w] = "hget"]
         /\ call' = [call EXCEPT ![w] = c]
         /\ outcome' = [outcome EXCEPT ![w] = "none"]
         /\ UNCHANGED <<db, obj, retries>>
    ELSE IF c.pk = 0 \/ KeygenError(Cls, c)
    THEN /\ Return(w, c, "ColumnError")
         /\ UNCHANGED <<db, watching, dirty>>
    ELSE IF c.use_lua /\ ~c.delete
    THEN LuaWrite(w, c)
    ELSE Commit(w, c)

\* One pass of "while 1" up to its first wait for the store.  A pass that
\* WATCHes stops after WATCH; a pass without a unique value to check ends
\* the call: by ColumnError from the column loop, or by talking to the
\* store once (EXEC, or the script).
Pass(w, c) ==
    IF c.pk = 0
    THEN /\ Return(w, c, "ColumnError")
         /\ UNCHANGED <<db, watching, dirty>>
    ELSE IF TooManyUnique(Cls.unique, c.use_lua)
    THEN /\ Return(w, c, "ColumnError")
         /\ UNCHANGED <<db, watching, dirty>>
    ELSE IF ~c.use_lua /\ CheckCols(Cls, c) # {}
    THEN /\ watching' = [watching EXCEPT ![w] = CheckCols(Cls, c)]
         /\ dirty' = [dirty EXCEPT ![w] = FALSE]
         /\ pc' = [pc EXCEPT ![w] = "hget"]
         /\ call' = [call EXCEPT ![w] = c]
         /\ outcome' = [outcome EXCEPT ![w] = "none"]
         /\ UNCHANGED <<db, obj, retries>>
    ELSE IF KeygenError(Cls, c)
    THEN /\ Return(w, c, "ColumnError")
         /\ UNCHANGED <<db, watching, dirty>>
    ELSE IF c.use_lua /\ ~c.delete
    THEN LuaWrite(w, c)
    ELSE Commit(w, c)

\* Model.save(full): _apply_changes(self._last, self.to_dict(),
\* full or self._new), with the string columns set to data beforehand.
Save(w) ==
    /\ MODELS # {}
    /\ pc[w] = "idle"
    /\ obj[w] # NoObj
    /\ OpsBegun < MaxOps
    /\ ops' = [ops EXCEPT ![w] = @ + 1]
    /\ \E data \in DataMaps(Cls), full \in BOOLEAN :
          Pass(w, Args(obj[w].last, ToDict(obj[w], data),
                       full \/ obj[w].isNew, FALSE))
    /\ UNCHANGED <<USE_LUA, MODELS, declared, qvars>>

\* Model.delete(): _apply_changes(self._last, {}, delete=True).
Delete(w) ==
    /\ MODELS # {}
    /\ pc[w] = "idle"
    /\ obj[w] # NoObj
    /\ OpsBegun < MaxOps
    /\ ops' = [ops EXCEPT ![w] = @ + 1]
    /\ Pass(w, Args(obj[w].last, Blank, FALSE, TRUE))
    /\ UNCHANGED <<USE_LUA, MODELS, declared, qvars>>

\* The field maps a program passes to _apply_changes directly: with or
\* without a primary key, with or without the email "a".
ArgMaps ==
    { [a \in Attrs |-> IF a = "id" THEN i
                       ELSE IF a = "email" THEN e
                       ELSE None] :
        i \in {None} \cup { IdToRedis(k) : k \in Ids }, e \in {None, "a"} }

\* cls._apply_changes(old, new, full, delete) called on the class, no
\* entity object involved.
Apply(w) ==
    /\ MODELS # {}
    /\ pc[w] = "idle"
    /\ obj[w] = NoObj
    /\ OpsBegun < MaxApplies
    /\ ops' = [ops EXCEPT ![w] = @ + 1]
    /\ \E old \in ArgMaps, new \in ArgMaps, full \in BOOLEAN,
          delete \in BOOLEAN :
          Pass(w, Args(old, new, full, delete))
    /\ UNCHANGED <<USE_LUA, MODELS, declared, qvars>>

\* What a round trip of a watching pass can raise besides WatchError: the
\* connection fails and the request never reaches the store.
StoreErrors == {"ConnectionError"}

\* Caught for "except Exception": every failure is caught.
CaughtAll(exc) == TRUE

\* "except redis.exceptions.WatchError": the one exception the loop
\* catches.
Caught(exc) == exc = "WatchError"

\* An exception leaving _apply_changes: nothing was written, the pipeline
\* is dropped.
Propagate(w, c, exc) ==
    /\ Return(w, c, exc)
    /\ watching' = [watching EXCEPT ![w] = {}]
    /\ dirty' = [dirty EXCEPT ![w] = FALSE]
    /\ UNCHANGED db

\* "ival = pipe.hget(ikey, nuvale)": MULTI when the value is free or
\* already this entity's, else UNWATCH and UniqueKeyViolation.  The read
\* is outside the try block.  After MULTI the column loop runs with no
\* further round trip up to EXEC, and may raise ColumnError.
Hget(w) ==
    /\ pc[w] = "hget"
    /\ LET c == call[w]
           col == CHOOSE x \in watching[w] : TRUE
           ival == db.uidx[col][c.new[col]]
       IN \E exc \in {"none"} \cup StoreErrors :
             IF exc # "none"
             THEN Propagate(w, c, exc)
             ELSE IF ~UniqueFree(ival, c.pk)
             THEN Propagate(w, c, "UniqueKeyViolation")
             ELSE IF KeygenError(Cls, c)
             THEN Propagate(w, c, "ColumnError")
             ELSE /\ pc' = [pc EXCEPT ![w] = "exec"]
                  /\ UNCHANGED <<db, call, outcome, obj, watching, dirty,
                                 retries>>
    /\ UNCHANGED <<USE_LUA, MODELS, declared, ops, qvars>>

\* What "pipe.execute()" after MULTI raises.
ExecRaises(w) ==
    (IF WatchError(watching[w], dirty[w]) THEN {"WatchError"} ELSE {"none"})
        \cup StoreErrors

\* Exec with a retry ceiling of one: the second WatchError of a call is
\* reported as a concurrent-modification error.
ExecCapped(w) ==
    /\ pc[w] = "exec"
    /\ \E exc \in ExecRaises(w) :
          IF exc = "none"
          THEN Commit(w, call[w])
          ELSE IF Caught(exc) /\ retries[w] < 1
          THEN /\ pc' = [pc EXCEPT ![w] = "loop"]
               /\ retries' = [retries EXCEPT ![w] = @ + 1]
               /\ watching' = [watching EXCEPT ![w] = {}]
               /\ dirty' = [dirty EXCEPT ![w] = FALSE]
               /\ UNCHANGED <<db, call, outcome, obj>>
          ELSE Propagate(w, call[w],
                         IF Caught(exc) THEN "ConcurrentModification"
                         ELSE exc)
    /\ UNCHANGED <<USE_LUA, MODELS, declared, ops, qvars>>

\* "try: pipe.execute() / except WatchError: continue / else: return
\* changes": a caught exception sends the call back to the top of the loop,
\* any other leaves the call, and without one the commands take effect.
Exec(w) ==
    /\ pc[w] = "exec"
    /\ \E exc \in ExecRaises(w) :
          IF exc = "none"
          THEN Commit(w, call[w])
          ELSE IF Caught(exc)
          THEN /\ pc' = [pc EXCEPT ![w] = "loop"]
               /\ retries' = [retries EXCEPT ![w] =
                                 IF @ < MaxRetries THEN @ + 1 ELSE @]
               /\ watching' = [watching EXCEPT ![w] = {}]
               /\ dirty' = [dirty EXCEPT ![w] = FALSE]
               /\ UNCHANGED <<db, call, outcome, obj>>
          ELSE Propagate(w, call[w], exc)
    /\ UNCHANGED <<USE_LUA, MODELS, declared, ops, qvars>>

\* Retry with "continue" resuming at the column loop: the pass buffers its
\* writes again without WATCH and without reading the unique index.
RetryNoReread(w) ==
    /\ pc[w] = "loop"
    /\ pc' = [pc EXCEPT ![w] = "exec"]
    /\ UNCHANGED <<db, obj, call, watching, dirty, retries, outcome>>
    /\ UNCHANGED <<USE_LUA, MODELS, declared, ops, qvars>>

\* The next pass of the loop after a WatchError.
Retry(w) ==
    /\ pc[w] = "loop"
    /\ Pass(w, call[w])
    /\ UNCHANGED <<USE_LUA, MODELS, declared, ops, qvars>>

\* ------------------------------------------------------------- refresh
\* Model.refresh(force=True) of a saved, not deleted entity: HGETALL on
\* "User:<pk>", then self.__init__(_loading=True, **data) on the same
\* object.  __init__ starts from empty _data and _last, and PrimaryKey._init_
\* takes a fresh key from INCR when the hash gave no id field.
Refresh(w) ==
    /\ MODELS # {}
    /\ pc[w] = "idle"
    /\ obj[w] # NoObj
    /\ ~obj[w].deleted
    /\ ~obj[w].isNew
    /\ OpsBegun < MaxOps
    /\ ops' = [ops EXCEPT ![w] = @ + 1]
    /\ LET data == db.rec[obj[w].pk]
           fresh == data["id"] = None
       IN /\ fresh => db.pkctr < MaxId
          /\ db' = IF fresh THEN [db EXCEPT !.pkctr = @ + 1] ELSE db
          /\ obj' = [obj EXCEPT ![w] =
                        [pk |-> IF fresh THEN db.pkctr + 1
                                ELSE IdFromRedis(data["id"]),
                         last |-> data, isNew |-> FALSE, deleted |-> FALSE,
                         modified |-> fresh]]
    /\ outcome' = [outcome EXCEPT ![w] = "none"]
    /\ call' = [call EXCEPT ![w] = NoCall]
    /\ UNCHANGED <<USE_LUA, MODELS, declared, pc, watching, dirty, retries,
                   qvars>>

\* Column.__set__ on an initialised entity: "obj.attr = value" stores the
\* value in _data and sets _modified.  The values themselves are followed
\* from save() on, which submits to_dict() of that moment.
Assign(w) ==
    /\ MODELS # {}
    /\ pc[w] = "idle"
    /\ obj[w] # NoObj
    /\ obj' = [obj EXCEPT ![w].modified = TRUE]
    /\ UNCHANGED <<USE_LUA, MODELS, declared, db, call, pc, watching, dirty,
                   retries, outcome, ops, qvars>>

\* RefreshEntity with the test of _new made only without force.
RefreshEntityForced(w, force) ==
    /\ MODELS # {}
    /\ pc[w] = "idle"
    /\ obj[w] # NoObj
    /\ OpsBegun < MaxOps
    /\ IF obj[w].deleted
       THEN /\ ops' = [ops EXCEPT ![w] = @ + 1]
            /\ outcome' = [outcome EXCEPT ![w] = "none"]
            /\ call' = [call EXCEPT ![w] = NoCall]
            /\ UNCHANGED <<USE_LUA, MODELS, declared, db, obj, pc, watching,
                           dirty, retries, qvars>>
       ELSE IF (obj[w].modified \/ obj[w].isNew) /\ ~force
       THEN /\ ops' = [ops EXCEPT ![w] = @ + 1]
            /\ outcome' = [outcome EXCEPT ![w] = "InvalidOperation"]
            /\ call' = [call EXCEPT ![w] = NoCall]
            /\ UNCHANGED <<USE_LUA, MODELS, declared, db, obj, pc, watching,
                           dirty, retries, qvars>>
       ELSE /\ ops' = [ops EXCEPT ![w] = @ + 1]
            /\ LET data == db.rec[obj[w].pk]
                   fresh == data["id"] = None
               IN /\ fresh => db.pkctr < MaxId
                  /\ db' = IF fresh THEN [db EXCEPT !.pkctr = @ + 1] ELSE db
                  /\ obj' = [obj EXCEPT ![w] =
                                [pk |-> IF fresh THEN db.pkctr + 1
                                        ELSE IdFromRedis(data["id"]),
                                 last |-> data, isNew |-> FALSE,
                                 deleted |-> FALSE, modified |-> fresh]]
            /\ outcome' = [outcome EXCEPT ![w] = "none"]
            /\ call' = [call EXCEPT ![w] = NoCall]
            /\ UNCHANGED <<USE_LUA, MODELS, declared, pc, watching, dirty,
                           retries, qvars>>

\* Model.refresh(force): nothing on a deleted entity, InvalidOperation on a
\* modified entity without force and on a new entity, else the reload of
\* Refresh.
RefreshEntity(w, force) ==
    /\ MODELS # {}
    /\ pc[w] = "idle"
    /\ obj[w] # NoObj
    /\ OpsBegun < MaxOps
    /\ IF obj[w].deleted
       THEN /\ ops' = [ops EXCEPT ![w] = @ + 1]
            /\ outcome' = [outcome EXCEPT ![w] = "none"]
            /\ call' = [call EXCEPT ![w] = NoCall]
            /\ UNCHANGED <<USE_LUA, MODELS, declared, db, obj, pc, watching,
                           dirty, retries, qvars>>
       ELSE IF (obj[w].modified /\ ~force) \/ obj[w].isNew
       THEN /\ ops' = [ops EXCEPT ![w] = @ + 1]
            /\ outcome' = [outcome EXCEPT ![w] = "InvalidOperation"]
            /\ call' = [call EXCEPT ![w] = NoCall]
            /\ UNCHANGED <<USE_LUA, MODELS, declared, db, obj, pc, watching,
                           dirty, retries, qvars>>
       ELSE Refresh(w)

Next ==
    \/ EnableLua
    \/ DisableLua
    \/ \E decl \in Decls : DeclareModel(decl)
    \/ \E w \in Writers : Create(w)
    \/ \E w \in Writers, id \in Ids : Get(w, id)
    \/ \E w \in Writers : Refresh(w)
    \/ \E w \in Writers : Save(w)
    \/ \E w \in Writers : Delete(w)
    \/ \E w \in Writers : Hget(w)
    \/ \E w \in Writers : Exec(w)
    \/ \E w \in Writers : Retry(w)

Spec == Init /\ [][Next]_vars

\* Programs whose model passes its own key generator for a column.
NextKeygen ==
    \/ EnableLua
    \/ DisableLua
    \/ \E decl \in KeygenDecls : DeclareModel(decl)
    \/ \E w \in Writers : Create(w)
    \/ \E w \in Writers, id \in Ids : Get(w, id)
    \/ \E w \in Writers : Refresh(w)
    \/ \E w \in Writers : Save(w)
    \/ \E w \in Writers : Delete(w)
    \/ \E w \in Writers : Hget(w)
    \/ \E w \in Writers : Exec(w)
    \/ \E w \in Writers : Retry(w)

KeygenSpec == Init /\ [][NextKeygen]_vars

\* Programs that declare the model with the Boolean column (it has no
\* unique column, so no call of theirs WATCHes).
NextBool ==
    \/ EnableLua
    \/ DisableLua
    \/ \E decl \in BoolDecls : DeclareModel(decl)
    \/ \E w \in Writers : Create(w)
    \/ \E w \in Writers, id \in Ids : Get(w, id)
    \/ \E w \in Writers : Refresh(w)
    \/ \E w \in Writers : Save(w)
    \/ \E w \in Writers : Delete(w)

BoolSpec == Init /\ [][NextBool]_vars

\* Programs that assign attributes and refresh their entities, on the model
\* with the one unique column email.
NextObj ==
    \/ EnableLua
    \/ \E decl \in { d \in Decls : Cardinality(d.unique) = 1 } :
          DeclareModel(decl)
    \/ \E w \in Writers : Create(w)
    \/ \E w \in Writers, id \in Ids : Get(w, id)
    \/ \E w \in Writers : Assign(w)
    \/ \E w \in Writers, force \in BOOLEAN : RefreshEntity(w, force)
    \/ \E w \in Writers : Save(w)
    \/ \E w \in Writers : Delete(w)
    \/ \E w \in Writers : Hget(w)
    \/ \E w \in Writers : Exec(w)
    \/ \E w \in Writers : Retry(w)

ObjSpec == Init /\ [][NextObj]_vars

\* Programs whose class statement constructs the email column: a unique
\* email column of any class, or an email column of a string class that is
\* not unique.
NextColumn ==
    \/ EnableLua
    \/ \E type \in ColumnTypes : DeclareColumn(type, TRUE)
    \/ \E type \in {"String", "Text"} : DeclareColumn(type, FALSE)
    \/ \E w \in Writers : Create(w)
    \/ \E w \in Writers, id \in Ids : Get(w, id)
    \/ \E w \in Writers : Refresh(w)
    \/ \E w \in Writers : Save(w)
    \/ \E w \in Writers : Delete(w)
    \/ \E w \in Writers : Hget(w)
    \/ \E w \in Writers : Exec(w)
    \/ \E w \in Writers : Retry(w)

ColumnSpec == Init /\ [][NextColumn]_vars

\* Programs that declare a model with one unique column and call
\* _apply_changes on the class.
NextApply ==
    \/ EnableLua
    \/ DisableLua
    \/ \E decl \in { d \in Decls : Cardinality(d.unique) = 1 } :
          DeclareModel(decl)
    \/ \E w \in Writers : Apply(w)
    \/ \E w \in Writers : Hget(w)
    \/ \E w \in Writers : Exec(w)
    \/ \E w \in Writers : Retry(w)

ApplySpec == Init /\ [][NextApply]_vars

\* ------------------------------------------------------------- lookups
\* Model.get_by(attr=value) on a unique column from a session that does
\* not hold the entity: HMGET on the unique index, then Model.get(id),
\* which returns nothing when the hash is gone.  0 stands for None.
GetBy(d, a, v) ==
    LET id == d.uidx[a][v]
    IN IF id # 0 /\ Exists(d, id) THEN id ELSE 0

\* Model.get_by(attr=[v1, v2, ...]) on a unique column: one HMGET on the
\* unique index, "filter(None, ...)" drops the values without an entry,
\* Model.get(ids) loads the hashes in that order and drops the ids that
\* have none.
GetByList(d, a, values) ==
    LET ids == SelectSeq([n \in 1..Len(values) |-> d.uidx[a][values[n]]],
                         LAMBDA i : i # 0)
    IN SelectSeq(ids, LAMBDA i : Exists(d, i))

\* The lists of candidate values asked for.
MaxValues == 2
ValueLists(a) ==
    UNION { [1..n -> ValuesOf(a)] : n \in 1..MaxValues }

\* session.get(pk) for the session of the writer that holds object o:
\* the object when its key is pk, else None.
SessionHolds(o, id) == o # NoObj /\ o.pk = id

\* Model.get(ids) without the closing "out = filter(None, out)".
ModelGetUnfiltered(d, o, ids) ==
    [n \in 1..Len(ids) |->
        IF SessionHolds(o, ids[n]) THEN [from |-> "session", id |-> ids[n]]
        ELSE IF Exists(d, ids[n]) THEN [from |-> "store", id |-> ids[n]]
        ELSE [from |-> "None", id |-> ids[n]]]

\* Model.get(ids) with a list or tuple: "out = map(session.get, pks)",
\* then HGETALL for the places that are None, cls(_loading=True, **data)
\* where the hash has data, and "out = filter(None, out)".  An entry names
\* where the entity comes from and the id it was asked by.
ModelGet(d, o, ids) ==
    SelectSeq([n \in 1..Len(ids) |->
                  IF SessionHolds(o, ids[n])
                  THEN [from |-> "session", id |-> ids[n]]
                  ELSE IF Exists(d, ids[n])
                  THEN [from |-> "store", id |-> ids[n]]
                  ELSE [from |-> "None", id |-> ids[n]]],
              LAMBDA e : e.from # "None")

\* The hashes Model.get(ids) reads: "if data is None: pipe.hgetall(...)".
ModelGetReads(o, ids) == SelectSeq(ids, LAMBDA i : ~SessionHolds(o, i))

\* Model.get(id) with a single id: "return out[0] if out else None".
ModelGetOne(d, o, id) ==
    IF ModelGet(d, o, <<id>>) = <<>>
    THEN [from |-> "None", id |-> id]
    ELSE ModelGet(d, o, <<id>>)[1]

\* The lists of ids asked for.
IdLists == UNION { [1..n -> Ids] : n \in 1..MaxValues }

\* The living entities whose hash holds value v in column a.
Holders(d, a, v) == { i \in Ids : d.rec[i][a] = v }

\* ------------------------------------------------------------- queries
\* A range end: <<>> for None (open), <<n>> for the number n.
Open == <<>>
Ends == {Open} \cup { <<n>> : n \in 0..(MaxId + 1) }

\* The clauses filter appends: 'attr:string', (attr, lo, hi), and the list
\* ['attr:s1', 'attr:s2', ...].
TokenClause(attr, str) ==
    [kind |-> "token", attr |-> attr, tokens |-> <<str>>, lo |-> Open,
     hi |-> Open]
RangeClause(attr, lo, hi) ==
    [kind |-> "range", attr |-> attr, tokens |-> <<>>, lo |-> lo, hi |-> hi]
OrClause(attr, strs) ==
    [kind |-> "or", attr |-> attr, tokens |-> strs, lo |-> Open, hi |-> Open]

\* Query.filter(attr=(lo, hi)): the filter (attr, lo, hi) is appended and
\* a new Query returned.
FilterRange(q, attr, lo, hi) ==
    [q EXCEPT !.filters = Append(@, RangeClause(attr, lo, hi))]

\* Query.filter(attr=number): "value = (value, value)".
FilterNumber(q, attr, n) == FilterRange(q, attr, <<n>>, <<n>>)

\* Query.filter(attr=string): the filter 'attr:string' is appended.
FilterString(q, attr, str) ==
    [q EXCEPT !.filters = Append(@, TokenClause(attr, str))]

\* A plain string among the filters: the key of one set or sorted set.
KeyFilter(key) ==
    [kind |-> "key", attr |-> key, tokens |-> <<>>, lo |-> Open, hi |-> Open]

\* score lies in [lo, hi], both ends inclusive, an open end unbounded
InRange(score, lo, hi) ==
    /\ lo = Open \/ lo[1] <= score
    /\ hi = Open \/ score <= hi[1]

\* The ids one filter admits: the members of the sorted set of the
\* attribute with a score in range, the members of the token's set, the
\* union of the sets of a token list.
Admits(d, f) ==
    IF f.kind = "range"
    THEN { e[2] : e \in { x \in d.ridx :
                             x[1] = f.attr /\ InRange(x[3], f.lo, f.hi) } }
    ELSE IF f.kind = "key"
    THEN { e[2] : e \in { x \in d.ridx : x[1] = f.attr } }
            \cup { e[2] : e \in { x \in d.midx :
                                     SubKey(x[1][1], x[1][2]) = f.attr } }
    ELSE { e[2] : e \in { x \in d.midx :
                             /\ x[1][1] = f.attr
                             /\ \E n \in 1..Len(f.tokens) :
                                    x[1][2] = f.tokens[n] } }

\* Filters compose by intersection.
Matches(d, q) ==
    { i \in Ids : \A n \in 1..Len(q.filters) : i \in Admits(d, q.filters[n]) }

\* Ids from <<score, id>> pairs, ascending by score, then by id.
RECURSIVE Ascending(_)
Ascending(P) ==
    IF P = {} THEN <<>>
    ELSE LET m == CHOOSE p \in P :
                    \A r \in P : p[1] < r[1] \/ (p[1] = r[1] /\ p[2] <= r[2])
         IN <<m[2]>> \o Ascending(P \ {m})

\* The sorted set a result is ranked by: that of the first range filter
\* when no order_by is given.  "" when there is none.
RankKey(q) ==
    LET R == { n \in 1..Len(q.filters) : q.filters[n].kind = "range" }
    IN IF R = {} THEN ""
       ELSE q.filters[CHOOSE n \in R : \A k \in R : n <= k].attr

\* GeneralIndex.search without order_by and limit: the matching ids,
\* ascending by the score of the range filter; a result without a range
\* filter has no specified order and is listed by id.
Search(d, q) ==
    Ascending({ <<IF \E e \in d.ridx : e[1] = RankKey(q) /\ e[2] = i
                  THEN (CHOOSE e \in d.ridx :
                            e[1] = RankKey(q) /\ e[2] = i)[3]
                  ELSE 0, i>> : i \in Matches(d, q) })

\* Query.execute() in a session that holds none of the entities:
\* Model.get(ids) loads the hashes and drops the ids that have none.  The
\* result is listed by the keys of the hashes loaded.
Execute(d, q) == SelectSeq(Search(d, q), LAMBDA i : Exists(d, i))

\* The words queried for.
Tokens == {"a", "b"}

\* Column names as order_by takes them, character by character: "id",
\* "-id" (descending), "--id", "-" and the empty string.
OrderColumns ==
    { <<"i", "d">>, <<"-", "i", "d">>, <<"-", "-", "i", "d">>, <<"-">>,
      <<>> }

\* str.lstrip('-')
RECURSIVE Lstrip(_)
Lstrip(chars) ==
    IF chars # <<>> /\ Head(chars) = "-" THEN Lstrip(Tail(chars)) ELSE chars

\* The string of a sequence of characters.
RECURSIVE Join(_)
Join(chars) == IF chars = <<>> THEN "" ELSE Head(chars) \o Join(Tail(chars))

\* "if self._order_by": neither None nor the empty string
OrderGiven(order_by) == order_by # NoOrder /\ order_by # <<>>

\* GeneralIndex.count(conn, filters): the number of ids all filters admit.
IndexCount(d, filters) ==
    Cardinality({ i \in Ids :
                    \A n \in 1..Len(filters) : i \in Admits(d, filters[n]) })

\* The values a program passes to filter, by Python type.
StrV(str) ==
    [type |-> "str", s |-> str, n |-> 0, b |-> FALSE, ends |-> <<>>,
     strs |-> <<>>]
NumV(n) ==
    [type |-> "num", s |-> "", n |-> n, b |-> FALSE, ends |-> <<>>,
     strs |-> <<>>]
BoolV(b) ==
    [type |-> "bool", s |-> "", n |-> 0, b |-> b, ends |-> <<>>,
     strs |-> <<>>]
TupleV(ends) ==
    [type |-> "tuple", s |-> "", n |-> 0, b |-> FALSE, ends |-> ends,
     strs |-> <<>>]
ListV(strs) ==
    [type |-> "list", s |-> "", n |-> 0, b |-> FALSE, ends |-> <<>>,
     strs |-> strs]
NoneV ==
    [type |-> "none", s |-> "", n |-> 0, b |-> FALSE, ends |-> <<>>,
     strs |-> <<>>]

\* str(bool(value))
StrOfBool(b) == IF b THEN "True" ELSE "False"

\* The body of the loop of Query.filter for one keyword: the isinstance
\* chain that turns the value into a clause or raises QueryError.
Classify(attr, value) ==
    LET v1 == IF value.type = "bool" THEN StrV(StrOfBool(value.b)) ELSE value
        v2 == IF v1.type = "num" THEN TupleV(<<<<v1.n>>, <<v1.n>>>>) ELSE v1
    IN IF v2.type = "str"
       THEN [raised |-> FALSE, clause |-> TokenClause(attr, v2.s)]
       ELSE IF v2.type = "tuple"
       THEN IF Len(v2.ends) # 2
            THEN [raised |-> TRUE, clause |-> KeyFilter("")]
            ELSE [raised |-> FALSE,
                  clause |-> RangeClause(attr, v2.ends[1], v2.ends[2])]
       ELSE IF v2.type = "list" /\ v2.strs # <<>>
       THEN [raised |-> FALSE, clause |-> OrClause(attr, v2.strs)]
       ELSE [raised |-> TRUE, clause |-> KeyFilter("")]

\* "cur_filters.append(...)" on a list that is the receiver's own.
AppendShared(st, clause) ==
    [st EXCEPT !.cur = Append(@, clause), !.self = Append(@, clause)]

\* "cur_filters.append(...)": cur_filters is list(self._filters), a copy,
\* so the receiver's filters stay as they are.
AppendCur(st, clause) == [st EXCEPT !.cur = Append(@, clause)]

\* "for attr, value in kwargs.iteritems()": the keywords in the order the
\* dict yields them, until one raises.
RECURSIVE FilterLoop(_, _)
FilterLoop(st, kwargs) ==
    IF kwargs = <<>> THEN st
    ELSE LET c == Classify(Head(kwargs).attr, Head(kwargs).value)
         IN IF c.raised THEN [st EXCEPT !.raised = TRUE]
            ELSE FilterLoop(AppendCur(st, c.clause), Tail(kwargs))

\* The keyword arguments passed to filter: one keyword, or one for email
\* and one for id in either order.
EmailArgs == {StrV("a"), ListV(<<"a", "b">>), ListV(<<>>), BoolV(TRUE)}
IdArgs ==
    {NumV(1), TupleV(<<Open, <<1>>>>), TupleV(<<<<1>>, <<1>>, <<1>>>>), NoneV}
Kwargs ==
    LET E == { [attr |-> "email", value |-> v] : v \in EmailArgs }
        I == { [attr |-> "id", value |-> v] : v \in IdArgs }
    IN { <<k>> : k \in E \cup I }
          \cup { <<e, i>> : e \in E, i \in I }
          \cup { <<i, e>> : e \in E, i \in I }

\* The Query that q.filter(**kwargs) returns when no keyword raises.
Filtered(q, kwargs) ==
    [q EXCEPT !.filters =
        FilterLoop([self |-> q.filters, cur |-> q.filters,
                    raised |-> FALSE], kwargs).cur]

\* Model.query: a fresh Query on the model.
ModelQuery ==
    /\ MODELS # {}
    /\ query # NewQuery
    /\ query' = NewQuery
    /\ UNCHANGED <<USE_LUA, MODELS, declared, db, obj, call, pc, watching,
                   dirty, retries, outcome, ops, answer>>

\* query = <the Query the last call returned>
Rebind ==
    /\ MODELS # {}
    /\ answer.op \in {"filter", "order_by", "limit"}
    /\ answer.result = "ok"
    /\ query # answer.query
    /\ query' = answer.query
    /\ UNCHANGED <<USE_LUA, MODELS, declared, db, obj, call, pc, watching,
                   dirty, retries, outcome, ops, answer>>

\* query.filter(**kwargs): a new Query with the clauses of the keywords
\* appended, or QueryError.
QueryFilter ==
    /\ MODELS # {}
    /\ \E kwargs \in Kwargs :
          /\ Len(query.filters) + Len(kwargs) <= MaxFilters
          /\ LET run == FilterLoop([self |-> query.filters,
                                    cur |-> query.filters,
                                    raised |-> FALSE], kwargs)
                 appended == Len(run.cur) - Len(query.filters)
             IN /\ query' = [query EXCEPT !.filters = run.self]
                /\ answer' =
                      IF run.raised
                      THEN Answer("filter", "QueryError", <<>>, NewQuery,
                                  <<>>, appended)
                      ELSE Answer("filter", "ok", <<>>,
                                  [filters |-> run.cur,
                                   order_by |-> query.order_by,
                                   limit |-> query.limit],
                                  <<>>, appended)
    /\ UNCHANGED <<USE_LUA, MODELS, declared, db, obj, call, pc, watching,
                   dirty, retries, outcome, ops>>

\* query.order_by(column)
QueryOrderBy ==
    /\ MODELS # {}
    /\ \E column \in OrderColumns :
          answer' = Answer("order_by", "ok", <<>>,
                           [filters |-> query.filters, order_by |-> column,
                            limit |-> query.limit], <<>>, 0)
    /\ UNCHANGED <<USE_LUA, MODELS, declared, db, obj, call, pc, watching,
                   dirty, retries, outcome, ops, query>>

\* query.limit(offset, count)
QueryLimit ==
    /\ MODELS # {}
    /\ \E offset \in {0}, count \in {1} :
          answer' = Answer("limit", "ok", <<>>,
                           [filters |-> query.filters,
                            order_by |-> query.order_by,
                            limit |-> <<offset, count>>], <<>>, 0)
    /\ UNCHANGED <<USE_LUA, MODELS, declared, db, obj, call, pc, watching,
                   dirty, retries, outcome, ops, query>>

\* Query.count() with the order_by column appended as it is given.
QueryCountNoStrip ==
    /\ MODELS # {}
    /\ LET filters == IF OrderGiven(query.order_by)
                      THEN Append(query.filters,
                                  KeyFilter(Join(query.order_by)))
                      ELSE query.filters
       IN answer' = IF filters = <<>>
                    THEN Answer("count", "QueryError", <<>>, NewQuery, <<>>,
                                0)
                    ELSE Answer("count", "ok",
                                <<IndexCount(db, filters)>>, NewQuery,
                                <<[op |-> "count", filters |-> filters]>>, 0)
    /\ UNCHANGED <<USE_LUA, MODELS, declared, db, obj, call, pc, watching,
                   dirty, retries, outcome, ops, query>>

\* Query.count(): the order_by column, stripped of leading '-', joins the
\* filters; without any filter QueryError is raised before _connect;
\* otherwise the general index counts.
QueryCount ==
    /\ MODELS # {}
    /\ LET filters == IF OrderGiven(query.order_by)
                      THEN Append(query.filters,
                                  KeyFilter(Join(Lstrip(query.order_by))))
                      ELSE query.filters
       IN answer' = IF filters = <<>>
                    THEN Answer("count", "QueryError", <<>>, NewQuery, <<>>,
                                0)
                    ELSE Answer("count", "ok",
                                <<IndexCount(db, filters)>>, NewQuery,
                                <<[op |-> "count", filters |-> filters]>>, 0)
    /\ UNCHANGED <<USE_LUA, MODELS, declared, db, obj, call, pc, watching,
                   dirty, retries, outcome, ops, query>>

\* The requests made of get_by: the keywords besides _limit (none, one, or
\* email and id) without _limit, which is then the empty tuple, and a
\* lookup by the unique email and a range of the indexed id with each
\* _limit.
GetByArgs ==
    LET limits == {TupleV(<<>>), TupleV(<<<<0>>>>), TupleV(<<<<0>>, <<1>>>>),
                   TupleV(<<Open, <<1>>>>), NumV(0), NumV(1), NoneV}
        values == {StrV("a"), NumV(1), ListV(<<"a">>), TupleV(<<<<1>>>>),
                   TupleV(<<<<1>>, <<1>>>>)}
        items == { [attr |-> a, value |-> v] :
                     a \in {"id", "email", "nick"}, v \in values }
    IN { [limit |-> TupleV(<<>>), kwargs |-> k] :
           k \in {<<>>} \cup { <<i>> : i \in items }
                  \cup { <<[attr |-> "email", value |-> StrV("a")],
                           [attr |-> "id", value |-> NumV(1)]>> } }
       \cup { [limit |-> l, kwargs |-> <<i>>] :
                l \in limits,
                i \in { [attr |-> "email", value |-> StrV("a")],
                        [attr |-> "id",
                         value |-> TupleV(<<<<1>>, <<1>>>>)] } }

\* Model.get_by(**kwargs) on store d: how it ends, the ids a unique lookup
\* finds, the Query whose all() an index lookup returns, and the commands
\* sent.  len() of a number raises TypeError.
GetByAnswer(cls, d, req) ==
    LET limit == req.limit
        given == CASE limit.type = "tuple" -> limit.ends # <<>>
                   [] limit.type = "num" -> limit.n # 0
                   [] OTHER -> FALSE
        raised(exc) == Answer("get_by", exc, <<>>, NewQuery, <<>>, 0)
        attr == req.kwargs[1].attr
        value == req.kwargs[1].value
        q == Filtered(NewQuery, req.kwargs)
    IN  IF given /\ limit.type = "num" THEN raised("TypeError")
        ELSE IF given /\ Len(limit.ends) # 2 THEN raised("QueryError")
        ELSE IF given /\ \E n \in 1..Len(limit.ends) : limit.ends[n] = Open
        THEN raised("QueryError")
        ELSE IF Len(req.kwargs) # 1 THEN raised("QueryError")
        ELSE IF value.type = "tuple" /\ Len(value.ends) # 2
        THEN raised("QueryError")
        ELSE IF attr \in cls.unique
        THEN IF value.type = "tuple" THEN raised("QueryError")
             ELSE Answer("get_by", "ok",
                         IF value.type = "list"
                         THEN GetByList(d, attr, value.strs)
                         ELSE IF value.type = "str"
                                 /\ GetBy(d, attr, value.s) # 0
                         THEN <<GetBy(d, attr, value.s)>>
                         ELSE <<>>,
                         NewQuery,
                         <<[op |-> "hmget", filters |-> <<>>]>>, 0)
        ELSE IF attr \notin cls.index THEN raised("QueryError")
        ELSE IF Classify(attr, value).raised THEN raised("QueryError")
        ELSE Answer("get_by", "ok", <<>>,
                    [q EXCEPT !.limit = IF given
                                        THEN <<limit.ends[1][1],
                                               limit.ends[2][1]>>
                                        ELSE @],
                    <<[op |-> "search", filters |-> q.filters]>>, 0)

\* get_by is a classmethod and reads nothing of the program's Query
\* object; it is called here by programs that hold a fresh one.
ModelGetBy(req) ==
    /\ MODELS # {}
    /\ query = NewQuery
    /\ answer' = GetByAnswer(Cls, db, req)
    /\ UNCHANGED <<USE_LUA, MODELS, declared, db, obj, call, pc, watching,
                   dirty, retries, outcome, ops, query>>

\* Programs that declare a model and build and count queries on it.
NextQuery ==
    \/ \E decl \in Decls : DeclareModel(decl)
    \/ ModelQuery
    \/ Rebind
    \/ QueryFilter
    \/ QueryOrderBy
    \/ QueryLimit
    \/ QueryCount
    \/ \E req \in GetByArgs : ModelGetBy(req)

QuerySpec == Init /\ [][NextQuery]_vars

\* The entities of a result list, order put aside.
Members(result) == { result[n] : n \in 1..Len(result) }

\* The call of writer w leaves _apply_changes in this step: a running call
\* takes its last step, or save() or delete() runs a call from start to
\* end.
Returns(w) ==
    /\ pc'[w] = "idle"
    /\ \/ pc[w] # "idle"
       \/ ops'[w] # ops[w] /\ outcome'[w] # "none"

\* The call writes a value into unique column a.
Claims(c, a) == ~c.delete /\ Written(c, a) /\ c.new[a] # None

\* The membership keys and scored keys the key generators give for the
\* values of a stored hash.
ExpectedKeys(cls, r) == Keys(cls, [new |-> r, delete |-> FALSE])
ExpectedScored(cls, r) ==
    { s[1] : s \in Scores(cls, [new |-> r, delete |-> FALSE]) }

\* The range entries <<key, id, score>> the key generators give for the
\* values of the stored hashes.
StoredScores(d, cls) ==
    UNION { { <<s[1], i, s[2]>> :
                s \in Scores(cls, [new |-> d.rec[i], delete |-> FALSE]) } :
            i \in Ids }

\* The ids whose stored value of attr has a score in [lo, hi], ascending.
ExpectedRange(d, cls, attr, lo, hi) ==
    Ascending({ <<e[3], e[2]>> :
                  e \in { x \in StoredScores(d, cls) :
                            x[1] = attr /\ InRange(x[3], lo, hi) } })

\* The keys under which the indexes hold entity id.
IndexedKeys(d, id) == { e[1] : e \in { x \in d.midx : x[2] = id } }
IndexedScored(d, id) == { e[1] : e \in { x \in d.ridx : x[2] = id } }

\* _apply_changes run from start to end on store d with no other writer
\* in between: how it can end, and the store it leaves.
SerialOutcomes(d, cls, c) ==
    IF c.pk = 0 \/ TooManyUnique(cls.unique, c.use_lua) THEN {"ColumnError"}
    ELSE IF /\ ~c.use_lua
            /\ \E col \in CheckCols(cls, c) :
                   ~UniqueFree(d.uidx[col][c.new[col]], c.pk)
    THEN {"UniqueKeyViolation"}
    ELSE IF KeygenError(cls, c) THEN {"ColumnError"}
    ELSE IF c.use_lua /\ ~c.delete THEN LuaResults(d, cls, c)
    ELSE {"ok"}

SerialStore(d, cls, c, result) ==
    IF result # "ok" THEN d
    ELSE IF c.use_lua /\ ~c.delete THEN LuaWrites(d, cls, c)
    ELSE IF c.use_lua THEN LuaDeleteCommit(d, c)
    ELSE OptCommit(d, cls, c)

\* How a call can end.
Outcomes ==
    {"none", "ok", "UniqueKeyViolation", "ColumnError", "ResponseError"}
        \cup StoreErrors

\* ------------------------------------------------------------------ C1
\* C1: for every unique attribute and every value, at most one living
\* entity holds the value and a unique lookup for it returns no other
\* entity than that one, whatever the sequence and interleaving of calls
\* (stated here for the non-empty values only).
C1_UniqueExclusivity ==
    MODELS # {} =>
        \A a \in Cls.unique : \A v \in ValuesOf(a) \ {""} :
            /\ Cardinality(Holders(db, a, v)) <= 1
            /\ (GetBy(db, a, v) # 0 /\ Holders(db, a, v) # {}) =>
                  Holders(db, a, v) = {GetBy(db, a, v)}

\* ------------------------------------------------------------------ C2
\* C2: a call for entity B that claims a (non-empty) unique value which a
\* different living entity A holds fails with UniqueKeyViolation, and a call
\* that ends with UniqueKeyViolation has changed nothing in the store:
\* records, unique index, indexes and manifests are as they were.
C2_ViolationAtomic ==
    [][\A w \in Writers :
          Returns(w) =>
              LET c == call'[w]
              IN /\ (\E a \in Cls.unique :
                        /\ Claims(c, a)
                        /\ c.new[a] # ""
                        /\ Holders(db, a, c.new[a]) \ {c.pk} # {})
                    => outcome'[w] \in {"UniqueKeyViolation", "ColumnError",
                                        "ResponseError"} \cup StoreErrors
                 /\ outcome'[w] = "UniqueKeyViolation" => db' = db]_vars

C4_DeleteRetractsAll ==
    [][\A w \in Writers :
          (Returns(w) /\ call'[w].delete /\ outcome'[w] = "ok") =>
              LET c == call'[w]
                  m == db.manifest[c.pk]
              IN /\ db'.rec[c.pk] = Blank
                 /\ db'.manifest[c.pk] = NoManifest
                 /\ IndexedKeys(db', c.pk) \cap m.keys = {}
                 /\ IndexedScored(db', c.pk) \cap m.scored = {}
                 /\ \A a \in Cls.unique : \A v \in ValuesOf(a) :
                       (c.old[a] = v /\ db.rec[c.pk][a] = v) =>
                           /\ db'.uidx[a][v] = 0
                           /\ GetBy(db', a, v) = 0]_vars

\* ------------------------------------------------------------------ C5
\* C5: after any successful non-delete call, for every entity, the manifest
\* lists exactly the membership and scored keys the key generators give for
\* the entity's stored values, and the indexes hold the entity under
\* exactly those keys (stated here for the calls made with Lua writes,
\* whose index writes are those of the script).
C5_ManifestComplete ==
    [][\A w \in Writers :
          (/\ Returns(w)
           /\ call'[w].use_lua
           /\ ~call'[w].delete
           /\ outcome'[w] = "ok") =>
              \A i \in Ids :
                  /\ db'.manifest[i].keys = ExpectedKeys(Cls, db'.rec[i])
                  /\ db'.manifest[i].scored = ExpectedScored(Cls, db'.rec[i])
                  /\ IndexedKeys(db', i) = ExpectedKeys(Cls, db'.rec[i])
                  /\ IndexedScored(db', i)
                        = ExpectedScored(Cls, db'.rec[i])]_vars

C8_OneUniqueWithoutLua ==
    [][/\ \A decl \in Decls :
             (DeclareModel(decl) /\ Cardinality(decl.unique) > 1 /\ ~USE_LUA)
             => declared' = "ColumnError" /\ MODELS' = MODELS
       /\ \A w \in Writers :
             (/\ Returns(w)
              /\ Cardinality(Cls.unique) > 1
              /\ ~call'[w].use_lua)
             => outcome'[w] = "ColumnError" /\ db' = db]_vars

\* A call on a registered model with two unique columns, Lua writes off,
\* has ended with ColumnError.
C8_Witness ==
    /\ ~USE_LUA
    /\ MODELS # {}
    /\ \E w \in Writers :
          /\ Cardinality(Cls.unique) > 1
          /\ call[w].pk # 0
          /\ outcome[w] = "ColumnError"

\* ------------------------------------------------------------------ C9
\* C9: the unique index follows the value.  After a successful call that
\* changes an entity's stored unique value v1 to v2, get_by on v1 returns
\* nothing and get_by on v2 returns the entity; after one that removes the
\* value, get_by on v1 returns nothing.
C9_UniqueFollowsValue ==
    [][\A w \in Writers :
          (Returns(w) /\ ~call'[w].delete /\ outcome'[w] = "ok") =>
              LET c == call'[w]
              IN \A a \in Cls.unique :
                    LET v1 == c.old[a]
                        v2 == c.new[a]
                    IN (v1 # None /\ db.rec[c.pk][a] = v1 /\ v2 # v1) =>
                          /\ GetBy(db', a, v1) = 0
                          /\ v2 # None => GetBy(db', a, v2) = c.pk]_vars

\* A loaded entity's email has been changed from "a" to "A b".
C9_Witness ==
    \E w \in Writers :
        /\ pc[w] = "idle" /\ outcome[w] = "ok"
        /\ call[w].old["id"] # None
        /\ call[w].old["email"] = "a"
        /\ call[w].new["email"] = "A b"
        /\ db.rec[call[w].pk]["email"] = "A b"
        /\ GetBy(db, "email", "A b") = call[w].pk

\* ----------------------------------------------------------------- C10
\* C10: the loop retries on WatchError alone.  A call goes back to the top
\* of the loop only from an EXEC whose watched key was modified; a store
\* round trip that fails in another way ends the call at once with that
\* failure, nothing written and the entity object as it was.
C10_OnlyWatchErrorRetried ==
    [][\A w \in Writers :
          /\ (pc'[w] = "loop" /\ pc[w] # "loop") =>
                pc[w] = "exec" /\ watching[w] # {} /\ dirty[w]
          /\ ((Hget(w) \/ Exec(w)) /\ outcome'[w] \in StoreErrors) =>
                pc'[w] = "idle" /\ db' = db /\ obj' = obj]_vars

\* A call that had a unique value to check (a watching pass) ended with a
\* connection failure.
C10_Witness ==
    /\ MODELS # {}
    /\ \E w \in Writers :
          /\ pc[w] = "idle"
          /\ outcome[w] \in StoreErrors
          /\ CheckCols(Cls, call[w]) # {}

\* ----------------------------------------------------------------- C11
\* C11: when EXEC reports that a watched key changed, nothing the attempt
\* buffered reaches the store and the call starts again from the top: it
\* WATCHes and reads the unique index anew, so a value another entity
\* claimed in between makes the retry end with UniqueKeyViolation and the
\* store untouched, and a commit never replaces another entity's claim.
C11_RetryRereads ==
    [][\A w \in Writers :
          /\ (Exec(w) /\ WatchError(watching[w], dirty[w])) => db' = db
          /\ (pc[w] = "loop" /\ pc'[w] # "loop") =>
                /\ pc'[w] = "hget"
                /\ watching'[w] = CheckCols(Cls, call[w])
                /\ call'[w] = call[w]
                /\ db' = db
          /\ (pc[w] = "hget" /\ pc'[w] # "hget" /\ retries[w] > 0) =>
                \A col \in watching[w] :
                    ~UniqueFree(db.uidx[col][call[w].new[col]], call[w].pk)
                    => /\ outcome'[w] \in {"UniqueKeyViolation"}
                                           \cup StoreErrors
                       /\ pc'[w] = "idle"
                       /\ db' = db
          /\ (pc[w] = "exec" /\ Returns(w) /\ outcome'[w] = "ok") =>
                \A col \in CheckCols(Cls, call[w]) :
                    UniqueFree(db.uidx[col][call[w].new[col]],
                               call[w].pk)]_vars

\* A call is at the read of its retry, and the value it claims is by now
\* held by another living entity.
C11_Witness ==
    \E w \in Writers :
        /\ pc[w] = "hget"
        /\ retries[w] > 0
        /\ \E col \in watching[w] :
              LET ival == db.uidx[col][call[w].new[col]]
              IN /\ ival \notin {0, call[w].pk}
                 /\ db.rec[ival][col] = call[w].new[col]

\* ----------------------------------------------------------------- C12
\* C12: a full rewrite is idempotent.  After a successful call with
\* full=True, a second call with full=True and the same new map - be its
\* old map the same again, or the one save() submits next (the new map) -
\* succeeds, so it raises no UniqueKeyViolation against the entity's own
\* claim, and leaves records, unique index, membership and range indexes
\* and manifests as the first call left them.
C12_FullRewriteIdempotent ==
    [][\A w \in Writers :
          (/\ Returns(w)
           /\ call'[w].full
           /\ ~call'[w].delete
           /\ outcome'[w] = "ok") =>
              \A again \in {call'[w], [call'[w] EXCEPT !.old = call'[w].new]} :
                  /\ SerialOutcomes(db', Cls, again) = {"ok"}
                  /\ SerialStore(db', Cls, again, "ok") = db']_vars

\* ----------------------------------------------------------------- C13
\* C13: an attribute whose new value equals the old one is skipped entirely
\* when full=False - its record field, its unique-index hash and its index
\* entries stay as they are - and a call with new equal to old on every
\* attribute, full=False and delete=False counts 0 changes and leaves the
\* whole store unchanged (stated here for the calls made with Lua writes,
\* whose index writes are those of the script).
C13_EqualitySkips ==
    [][\A w \in Writers :
          (/\ Returns(w)
           /\ call'[w].use_lua
           /\ ~call'[w].full
           /\ ~call'[w].delete
           /\ outcome'[w] = "ok") =>
              LET c == call'[w]
              IN /\ \A a \in Cls.columns :
                        c.new[a] = c.old[a] =>
                            /\ db'.rec[c.pk][a] = db.rec[c.pk][a]
                            /\ a \in Cls.unique => db'.uidx[a] = db.uidx[a]
                            /\ { e \in db'.midx : e[2] = c.pk /\ e[1][1] = a }
                                 = { e \in db.midx : e[2] = c.pk /\ e[1][1] = a }
                            /\ { e \in db'.ridx : e[2] = c.pk /\ e[1] = a }
                                 = { e \in db.ridx : e[2] = c.pk /\ e[1] = a }
                 /\ (\A a \in Cls.columns : c.new[a] = c.old[a]) =>
                        /\ Changes(Cls, c) = 0
                        /\ db' = db]_vars

\* ----------------------------------------------------------------- C14
\* C14: the primary key of an entity object never changes - not by save,
\* delete or refresh, also when another writer deleted the record in
\* between - and a created entity receives a key no entity received before.
C14_PrimaryKeyImmutable ==
    [][\A w \in Writers :
          /\ (obj[w] # NoObj /\ (Refresh(w) \/ pc[w] # "idle" \/ Returns(w)))
                => obj'[w].pk = obj[w].pk
          /\ Create(w) =>
                /\ obj'[w].pk > db.pkctr
                /\ \A x \in Writers \ {w} : obj'[w].pk # obj[x].pk]_vars

\* ----------------------------------------------------------------- C15
\* C15: what a key generator returns decides what a call indexes.  A token
\* collection gives the membership keys attr:token, a score-map the range
\* entries (the empty sub-key under attr, another under attr:subkey), a bare
\* number is the attribute's range score, None gives no entry; any other
\* return ends the call with ColumnError and the store untouched.
C15_KeygenReturns ==
    [][\A w \in Writers :
          (/\ Returns(w)
           /\ ~call'[w].delete
           /\ outcome'[w] \in {"ok", "ColumnError"}) =>
              LET c == call'[w]
                  cols == KeygenCols(Cls, c)
                  other == { a \in cols : Generated(Cls, c, a).kind = "text" }
              IN /\ other # {} => outcome'[w] = "ColumnError" /\ db' = db
                 /\ other = {} =>
                      /\ outcome'[w] = "ok"
                      /\ \A a \in cols :
                            LET g == Generated(Cls, c, a)
                                members == { e \in db'.midx :
                                               e[2] = c.pk /\ e[1][1] = a }
                                ranged == { e \in db'.ridx :
                                              e[2] = c.pk /\ e[1] = a }
                            IN /\ g.kind = "list" =>
                                    members = { <<<<a, t>>, c.pk>> :
                                                  t \in g.items }
                               /\ g.kind = "dict" =>
                                    \A e \in g.map :
                                        <<SubKey(a, e[1]), c.pk, e[2]>>
                                            \in db'.ridx
                               /\ g.kind = "number" =>
                                    ranged = { <<a, c.pk, g.num>> }
                               /\ g.kind = "none" =>
                                    members = {} /\ ranged = {}]_vars

\* ----------------------------------------------------------------- C16
\* C16: a call of _apply_changes whose old and new maps both lack a primary
\* key ends with ColumnError in its first step: no WATCH is placed, no
\* command reaches the store, the store is as it was.
C16_MissingPkRaisesFirst ==
    [][\A w \in Writers :
          (/\ pc[w] = "idle"
           /\ ops'[w] # ops[w]
           /\ call'[w].old["id"] = None
           /\ call'[w].new["id"] = None) =>
              /\ pc'[w] = "idle"
              /\ outcome'[w] = "ColumnError"
              /\ db' = db
              /\ watching' = watching
              /\ dirty' = dirty]_vars

\* A call without a primary key in either map, claiming the email "a", has
\* ended with ColumnError on a store that holds a record.
C16_Witness ==
    \E w \in Writers :
        /\ pc[w] = "idle"
        /\ outcome[w] = "ColumnError"
        /\ call[w].old["id"] = None
        /\ call[w].new["id"] = None
        /\ call[w].new["email"] = "a"
        /\ \E i \in Ids : Exists(db, i)

\* ----------------------------------------------------------------- C17
\* C17: at any time, a query filtered by id=(lo, hi), or by id=v for
\* [v, v], returns exactly the entities whose stored hash holds an id with
\* a score in [lo, hi], in ascending order of that score.
C17_RangeCorrect ==
    MODELS # {} =>
        /\ \A lo \in Ends, hi \in Ends :
              Execute(db, FilterRange(NewQuery, "id", lo, hi))
                  = ExpectedRange(db, Cls, "id", lo, hi)
        /\ \A v \in 0..(MaxId + 1) :
              Execute(db, FilterNumber(NewQuery, "id", v))
                  = ExpectedRange(db, Cls, "id", <<v>>, <<v>>)

\* ----------------------------------------------------------------- C18
\* C18: at any time, a query with two single-token filters on email
\* returns exactly the entities for whose stored email the key generator
\* gives both tokens.
C18_TokenConjunction ==
    MODELS # {} =>
        \A s \in Tokens, t \in Tokens :
            Members(Execute(db, FilterString(FilterString(NewQuery,
                                                         "email", s),
                                            "email", t)))
                = { i \in Ids : {<<"email", s>>, <<"email", t>>}
                                   \subseteq ExpectedKeys(Cls, db.rec[i]) }

\* ----------------------------------------------------------------- C19
\* C19: at any time, get_by on a unique column with one value returns the
\* one entity whose stored hash holds the value, or None when no entity
\* holds it; with a list of values it returns, in the order of the values,
\* the entity holding each value that some entity holds, and nothing for
\* the others.
C19_GetByUnique ==
    MODELS # {} =>
        \A a \in Cls.unique :
            /\ \A v \in ValuesOf(a) :
                  /\ Holders(db, a, v) = {} => GetBy(db, a, v) = 0
                  /\ Holders(db, a, v) # {} =>
                        GetBy(db, a, v) \in Holders(db, a, v)
            /\ \A values \in ValueLists(a) :
                  LET held == SelectSeq(values,
                                        LAMBDA v : Holders(db, a, v) # {})
                      got == GetByList(db, a, values)
                  IN /\ Len(got) = Len(held)
                     /\ \A n \in 1..Len(got) :
                           got[n] \in Holders(db, a, held[n])

C21_CountOfMatches ==
    [][QueryCount =>
          /\ answer'.result = "ok"
          /\ query.filters = <<>> => answer'.value = <<0>>
          /\ query.filters # <<>> =>
                answer'.value = <<Cardinality(Members(Execute(db, query)))>>]_vars

\* ----------------------------------------------------------------- C22
\* C22: filter, order_by and limit leave the Query they are called on as it
\* was (filters, ordering and limit), also when filter raises QueryError
\* after clauses of earlier keywords were appended, and what they return
\* on success is a Query that differs from the receiver in the one part
\* the method sets.
C22_QueryUnchanged ==
    [][(QueryFilter \/ QueryOrderBy \/ QueryLimit) =>
          /\ query' = query
          /\ (answer'.op = "filter" /\ answer'.result = "ok") =>
                /\ answer'.query.order_by = query.order_by
                /\ answer'.query.limit = query.limit
                /\ Len(answer'.query.filters)
                      = Len(query.filters) + answer'.appended
                /\ SubSeq(answer'.query.filters, 1, Len(query.filters))
                      = query.filters
          /\ answer'.op = "order_by" =>
                /\ answer'.query.filters = query.filters
                /\ answer'.query.limit = query.limit
          /\ answer'.op = "limit" =>
                /\ answer'.query.filters = query.filters
                /\ answer'.query.order_by = query.order_by]_vars

\* filter has raised QueryError on its second keyword, after the clause of
\* the first was appended, on a query that carries one filter, an ordering
\* and a limit.
C22_Witness ==
    /\ answer.op = "filter"
    /\ answer.result = "QueryError"
    /\ answer.appended = 1
    /\ Len(query.filters) = 1
    /\ OrderGiven(query.order_by)
    /\ query.limit # <<>>

C25_UniqueOnlyOnString ==
    [][\A type \in ColumnTypes :
          DeclareColumn(type, TRUE) /\ type # "String"
              => declared' = "ColumnError" /\ MODELS' = {}]_vars

\* ----------------------------------------------------------------- C26
\* The calls save() and delete() make on a model whose unique column is
\* email, for entities 1 and 2 with no email, the empty string or "a":
\* save() passes the old map (without the key for an entity never saved),
\* the new map with the key, and full; delete() passes the old map and {}.
MaxCalls == 2
ModeMaps ==
    { [a \in Attrs |-> IF a = "id" THEN i
                       ELSE IF a = "email" THEN e
                       ELSE None] :
        i \in {None} \cup { IdToRedis(k) : k \in Ids },
        e \in {None, "", "a"} }
ModeCalls ==
    { [old |-> old, new |-> new, full |-> full, delete |-> FALSE] :
        old \in ModeMaps,
        new \in { m \in ModeMaps : m["id"] # None },
        full \in BOOLEAN }
    \cup { [old |-> old, new |-> Blank, full |-> FALSE, delete |-> TRUE] :
             old \in { m \in ModeMaps : m["id"] # None } }

\* The calls of a sequence made one after the other under one setting of
\* USE_LUA, each run from start to end: the ways the sequence can go, as
\* the outcome of each call and the store left at the end.
RECURSIVE SerialRuns(_, _, _, _)
SerialRuns(d, cls, calls, use_lua) ==
    IF calls = <<>> THEN { [db |-> d, outs |-> <<>>] }
    ELSE LET k == Head(calls)
             c == [pk |-> PkOf(k.old, k.new), old |-> k.old, new |-> k.new,
                   full |-> k.full, delete |-> k.delete,
                   use_lua |-> use_lua]
         IN UNION { { [db |-> r.db, outs |-> <<res>> \o r.outs] :
                        r \in SerialRuns(SerialStore(d, cls, c, res), cls,
                                         Tail(calls), use_lua) } :
                    res \in SerialOutcomes(d, cls, c) }

\* What the two modes are compared on: success or UniqueKeyViolation of
\* each call, the records and the unique indexes.
ModeView(runs) ==
    { [outs |-> r.outs, rec |-> r.db.rec, uidx |-> r.db.uidx] : r \in runs }

\* C26: on a model with at most one unique attribute, every sequence of
\* sequential _apply_changes calls made on the empty store gives in
\* optimistic mode and in Lua mode the same outcome for each call, the same
\* records and the same unique-index contents.
C26_ModesEquivalent ==
    MODELS # {} /\ Cardinality(Cls.unique) <= 1 =>
        \A calls \in UNION { [1..n -> ModeCalls] : n \in 1..MaxCalls } :
            ModeView(SerialRuns(EmptyDb, Cls, calls, FALSE))
                = ModeView(SerialRuns(EmptyDb, Cls, calls, TRUE))

\* ----------------------------------------------------------------- C27
\* C27: a step of an _apply_changes call for entity X never deletes or
\* overwrites a unique-index entry that maps to another entity Y: an entry
\* that maps to Y changes only in a step of a call whose key is Y.
C27_ForeignEntryKept ==
    [][\A a \in StrAttrs, v \in UFields, w \in Writers :
          /\ db.uidx[a][v] # 0
          /\ db'.uidx[a][v] # db.uidx[a][v]
          /\ (ops'[w] # ops[w] \/ pc'[w] # pc[w])
          => call'[w].pk = db.uidx[a][v]]_vars

\* ----------------------------------------------------------------- C28
\* C28: at any time, every id found in a membership index, in a range index
\* or in the manifests has a stored record (so save() after delete() leaves
\* no index or manifest entry of the deleted entity behind).
C28_IndexedAreStored ==
    \A id \in Ids :
        \/ db.manifest[id].present
        \/ \E e \in db.midx \cup db.ridx : e[2] = id
        => \/ Exists(db, id)
           \/ \E w \in Writers : pc[w] # "idle" /\ call[w].pk = id

\* ----------------------------------------------------------------- C29
\* C29: a save() that raises UniqueKeyViolation or ColumnError leaves _new,
\* _last, _modified and _deleted as they were: no step of the running call
\* touches the object, the step in which it raises neither, and the object
\* then still holds the old map the call was given and, when it was never
\* saved, the call was a full write (as the next one will be).
C29_FailedSaveKeepsFlags ==
    [][\A w \in Writers :
          /\ pc'[w] # "idle" => obj'[w] = obj[w]
          /\ ( /\ Returns(w)
               /\ ~call'[w].delete
               /\ outcome'[w] \in {"UniqueKeyViolation", "ColumnError"} )
             => /\ obj'[w] = obj[w]
                /\ obj'[w].last = call'[w].old
                /\ obj'[w].isNew => call'[w].full]_vars

\* The save() of a never-saved, modified entity has raised
\* UniqueKeyViolation.
C29_Witness ==
    \E w \in Writers :
        /\ pc[w] = "idle"
        /\ outcome[w] = "UniqueKeyViolation"
        /\ ~call[w].delete
        /\ obj[w].isNew /\ obj[w].modified /\ ~obj[w].deleted
        /\ obj[w].last = call[w].old

\* ----------------------------------------------------------------- C30
\* C30: refresh() on a deleted entity does nothing; on a modified entity
\* without force, and on a never-saved entity with or without force, it
\* raises InvalidOperation; on a saved entity that is unmodified or
\* refreshed with force it reloads the stored hash; and whenever it raises,
\* the object and the store are as before.
C30_RefreshKeepsChanges ==
    [][\A w \in Writers, force \in BOOLEAN :
          RefreshEntity(w, force) =>
              /\ obj[w].deleted =>
                    /\ outcome'[w] # "InvalidOperation"
                    /\ obj' = obj /\ db' = db
              /\ (~obj[w].deleted /\ obj[w].modified /\ ~force) =>
                    outcome'[w] = "InvalidOperation"
              /\ (~obj[w].deleted /\ obj[w].isNew) =>
                    outcome'[w] = "InvalidOperation"
              /\ ( /\ ~obj[w].deleted /\ ~obj[w].isNew
                   /\ (force \/ ~obj[w].modified) ) =>
                    /\ outcome'[w] # "InvalidOperation"
                    /\ obj'[w].last = db.rec[obj[w].pk]
              /\ outcome'[w] = "InvalidOperation" =>
                    obj' = obj /\ db' = db]_vars

\* refresh() has raised on a saved entity with unsaved modifications.
C30_Witness ==
    \E w \in Writers :
        /\ outcome[w] = "InvalidOperation"
        /\ obj[w] # NoObj
        /\ obj[w].modified /\ ~obj[w].isNew /\ ~obj[w].deleted
        /\ Exists(db, obj[w].pk)

\* ----------------------------------------------------------------- C31
\* C31: get_by ends with QueryError, and has sent no command to the store,
\* whenever the request names no or more than one attribute, gives a _limit
\* that is not two integers, gives a range tuple that has not exactly two
\* endpoints, gives a range tuple for a unique attribute, or names an
\* attribute that is neither unique nor indexed.
C31_GetByRejects ==
    [][\A req \in GetByArgs :
          ( /\ ModelGetBy(req)
            /\ \/ Len(req.kwargs) # 1
               \/ /\ req.limit # TupleV(<<>>)
                  /\ ~( /\ req.limit.type = "tuple"
                        /\ Len(req.limit.ends) = 2
                        /\ \A n \in 1..2 : req.limit.ends[n] # Open )
               \/ \E n \in 1..Len(req.kwargs) :
                     LET attr == req.kwargs[n].attr
                         value == req.kwargs[n].value
                     IN \/ value.type = "tuple" /\ Len(value.ends) # 2
                        \/ value.type = "tuple" /\ attr \in Cls.unique
                        \/ attr \notin Cls.unique \cup Cls.index )
          => /\ answer'.result = "QueryError"
             /\ answer'.commands = <<>>]_vars

====
